---- MODULE Spec2Model ----
(***************************************************************************)
(* A counted prefix tree (package trie).  A Trie owns one root Branch; a   *)
(* Branch maps the next code point to a child Branch and carries the count *)
(* of the entry that ends at it.  The tree is kept as an arena: a function *)
(* from the path of a node (the code points from the root to it) to the    *)
(* node's Count; the domain is the set of nodes that exist, and the        *)
(* children of a node are the paths one code point longer.                 *)
(*                                                                         *)
(* Strings are sequences of bytes (Go strings); the public operations      *)
(* decode them to code points with []rune(entry), and member values are    *)
(* encoded back to bytes.                                                  *)
(***************************************************************************)
EXTENDS Integers, Sequences, FiniteSets, TLC

VARIABLES Root, op, arg, ret, prev, lock, thread, seq, started

vars == <<Root, op, arg, ret, prev, lock, thread, seq, started>>

\* What the calls made one at a time write: the last call and its result.
lastCall == <<op, arg, ret, prev>>

\* What the calls made by several threads write: the root lock, the threads,
\* and the history kept of them.
conc == <<lock, thread, seq, started>>

\* ------------------------------------------------------------------ bounds
\* Largest sum of the counts of the tree (number of Add calls not yet undone).
MaxTotal == 3
\* Most lines, ended by a line feed, of a file given to LoadFromFile.
MaxLines == 2

\* ------------------------------------------------------- strings and runes
IsCont(b) == b >= 128 /\ b <= 191

\* The first code point of the byte string s and the number of bytes it takes
\* (what the conversion []rune(s) reads at each step): an ill-formed byte
\* gives U+FFFD and width 1.
DecodeRune(s) ==
    LET b0 == s[1]
        n  == Len(s)
    IN  IF b0 < 128 THEN [r |-> b0, w |-> 1]
        ELSE IF b0 >= 194 /\ b0 <= 223 /\ n >= 2 /\ IsCont(s[2])
            THEN [r |-> (b0 - 192) * 64 + (s[2] - 128), w |-> 2]
        ELSE IF b0 >= 224 /\ b0 <= 239 /\ n >= 3 /\ IsCont(s[2]) /\ IsCont(s[3])
                /\ (b0 = 224 => s[2] >= 160) /\ (b0 = 237 => s[2] <= 159)
            THEN [r |-> (b0 - 224) * 4096 + (s[2] - 128) * 64 + (s[3] - 128), w |-> 3]
        ELSE IF b0 >= 240 /\ b0 <= 244 /\ n >= 4
                /\ IsCont(s[2]) /\ IsCont(s[3]) /\ IsCont(s[4])
                /\ (b0 = 240 => s[2] >= 144) /\ (b0 = 244 => s[2] <= 143)
            THEN [r |-> (b0 - 240) * 262144 + (s[2] - 128) * 4096
                        + (s[3] - 128) * 64 + (s[4] - 128), w |-> 4]
        ELSE [r |-> 65533, w |-> 1]

\* []rune(s): the code points of the byte string s.
RECURSIVE Runes(_)
Runes(s) ==
    IF s = <<>> THEN <<>>
    ELSE LET d == DecodeRune(s)
         IN  <<d.r>> \o Runes(SubSeq(s, d.w + 1, Len(s)))

\* The UTF-8 bytes of one code point.
EncodeRune(r) ==
    IF r < 128 THEN <<r>>
    ELSE IF r < 2048 THEN <<192 + (r \div 64), 128 + (r % 64)>>
    ELSE IF r < 65536
        THEN <<224 + (r \div 4096), 128 + ((r \div 64) % 64), 128 + (r % 64)>>
    ELSE <<240 + (r \div 262144), 128 + ((r \div 4096) % 64),
           128 + ((r \div 64) % 64), 128 + (r % 64)>>

\* string(runes): the byte string of a sequence of code points.
RECURSIVE RunesToString(_)
RunesToString(rs) ==
    IF rs = <<>> THEN <<>>
    ELSE EncodeRune(Head(rs)) \o RunesToString(Tail(rs))

\* The texts the operations are called with, as code points: 'a' is U+0061
\* (one byte in UTF-8) and U+4E2D, the first character of the test's entries,
\* takes three bytes.  They hold the empty text, a chain three nodes deep
\* (97; 97,20013; 97,20013,97), a sibling on each level and a second subtree.
Words ==
    { <<>>,
      <<97>>, <<20013>>,
      <<97, 97>>, <<97, 20013>>, <<20013, 97>>,
      <<97, 20013, 97>> }

\* The same texts as Go strings: the arguments of the calls.
Entries == {RunesToString(w) : w \in Words}

\* ------------------------------------------------------------------ Branch
\* NewTrie: a root Branch with no children and Count 0.
NewTrie == [p \in {<<>>} |-> 0]

\* Branches of the node b: the paths of its children.
Children(t, b) ==
    {p \in DOMAIN t : Len(p) = Len(b) + 1 /\ SubSeq(p, 1, Len(b)) = b}

\* The tree t with the new, empty child c.
Link(t, c) == [p \in DOMAIN t \cup {c} |-> IF p = c THEN 0 ELSE t[p]]

\* The tree t without the node c (delete(parent.Branches, key)).
Unlink(t, c) == [p \in DOMAIN t \ {c} |-> t[p]]

\* Branch.add: walk down entry from b, creating the missing children; at the
\* end of entry raise the Count of the node reached and return that node.
RECURSIVE add(_, _, _)
add(t, b, entry) ==
    IF entry = <<>>
    THEN [tree |-> [t EXCEPT ![b] = @ + 1], branch |-> b]
    ELSE LET c == Append(b, Head(entry))
         IN  add(IF c \in DOMAIN t THEN t ELSE Link(t, c), c, Tail(entry))

\* delete that unlinks the terminal node and leaves its ancestors linked.
RECURSIVE deleteTerminalOnly(_, _, _)
deleteTerminalOnly(t, b, entry) ==
    IF entry = <<>>
    THEN IF t[b] > 0
         THEN [tree |-> [t EXCEPT ![b] = @ - 1], deleted |-> TRUE]
         ELSE [tree |-> t, deleted |-> FALSE]
    ELSE LET c == Append(b, Head(entry))
         IN  IF c \notin DOMAIN t
             THEN [tree |-> t, deleted |-> FALSE]
             ELSE LET r == deleteTerminalOnly(t, c, Tail(entry))
                  IN  IF r.deleted /\ Tail(entry) = <<>>
                         /\ r.tree[c] = 0 /\ Children(r.tree, c) = {}
                      THEN [tree |-> Unlink(r.tree, c), deleted |-> TRUE]
                      ELSE r

\* delete that unlinks a child left with Count 0 without looking at the
\* child's own children: the subtree under it goes with it.
RECURSIVE deletePrunesSubtree(_, _, _)
deletePrunesSubtree(t, b, entry) ==
    IF entry = <<>>
    THEN IF t[b] > 0
         THEN [tree |-> [t EXCEPT ![b] = @ - 1], deleted |-> TRUE]
         ELSE [tree |-> t, deleted |-> FALSE]
    ELSE LET c == Append(b, Head(entry))
         IN  IF c \notin DOMAIN t
             THEN [tree |-> t, deleted |-> FALSE]
             ELSE LET r == deletePrunesSubtree(t, c, Tail(entry))
                  IN  IF r.deleted /\ r.tree[c] = 0
                      THEN [tree |->
                              [p \in {q \in DOMAIN r.tree :
                                        ~(Len(q) >= Len(c) /\ SubSeq(q, 1, Len(c)) = c)}
                                 |-> r.tree[p]],
                            deleted |-> TRUE]
                      ELSE r

\* delete that lowers the Count and unlinks nothing.
RECURSIVE deleteNoPrune(_, _, _)
deleteNoPrune(t, b, entry) ==
    IF entry = <<>>
    THEN IF t[b] > 0
         THEN [tree |-> [t EXCEPT ![b] = @ - 1], deleted |-> TRUE]
         ELSE [tree |-> t, deleted |-> FALSE]
    ELSE LET c == Append(b, Head(entry))
         IN  IF c \notin DOMAIN t
             THEN [tree |-> t, deleted |-> FALSE]
             ELSE deleteNoPrune(t, c, Tail(entry))

\* delete that lowers the Count of the terminal node without looking at it.
RECURSIVE deleteUnchecked(_, _, _)
deleteUnchecked(t, b, entry) ==
    IF entry = <<>>
    THEN [tree |-> [t EXCEPT ![b] = @ - 1], deleted |-> TRUE]
    ELSE LET c == Append(b, Head(entry))
         IN  IF c \notin DOMAIN t
             THEN [tree |-> t, deleted |-> FALSE]
             ELSE LET r == deleteUnchecked(t, c, Tail(entry))
                  IN  IF r.deleted /\ r.tree[c] = 0 /\ Children(r.tree, c) = {}
                      THEN [tree |-> Unlink(r.tree, c), deleted |-> TRUE]
                      ELSE r

\* Branch.delete: walk down entry from b; a missing child, or a terminal node
\* with Count 0, is "not found".  Otherwise lower the Count by one, and on the
\* way back each parent unlinks a child left with Count 0 and no children.
RECURSIVE delete(_, _, _)
delete(t, b, entry) ==
    IF entry = <<>>
    THEN IF t[b] > 0
         THEN [tree |-> [t EXCEPT ![b] = @ - 1], deleted |-> TRUE]
         ELSE [tree |-> t, deleted |-> FALSE]
    ELSE LET c == Append(b, Head(entry))
         IN  IF c \notin DOMAIN t
             THEN [tree |-> t, deleted |-> FALSE]
             ELSE LET r == delete(t, c, Tail(entry))
                  IN  IF r.deleted /\ r.tree[c] = 0 /\ Children(r.tree, c) = {}
                      THEN [tree |-> Unlink(r.tree, c), deleted |-> TRUE]
                      ELSE r

\* Branch.getBranch: the node at the end of entry below b, as a set: {} when a
\* child on the way is missing (nil), else the one node reached.
RECURSIVE getBranch(_, _, _)
getBranch(t, b, entry) ==
    IF entry = <<>> THEN {b}
    ELSE LET c == Append(b, Head(entry))
         IN  IF c \notin DOMAIN t THEN {} ELSE getBranch(t, c, Tail(entry))

\* Branch.has: a node exists at entry and its Count is > 0.
has(t, b, entry) == \E n \in getBranch(t, b, entry) : t[n] > 0

\* Branch.hasCount: (exists, count); (false, 0) when the node is missing or is
\* only a prefix node.
hasCount(t, b, entry) ==
    IF has(t, b, entry)
    THEN <<TRUE, t[CHOOSE n \in getBranch(t, b, entry) : TRUE]>>
    ELSE <<FALSE, 0>>

\* Branch.hasPrefix: a node exists at prefix, whatever its Count.
hasPrefix(t, b, prefix) == getBranch(t, b, prefix) # {}

\* Branch.hasPrefixCount: (exists, the own Count of the node at prefix).
hasPrefixCount(t, b, prefix) ==
    IF hasPrefix(t, b, prefix)
    THEN <<TRUE, t[CHOOSE n \in getBranch(t, b, prefix) : TRUE]>>
    ELSE <<FALSE, 0>>

\* MemberInfo{Value, Count}
MemberInfo(value, count) == [Value |-> value, Count |-> count]

\* Branch.members: the node's own MemberInfo when its Count is > 0, then the
\* members of each child with the child's code point appended to the
\* accumulated path.  The children are ranged over in map order, which is not
\* fixed: the value is the set of the lists the call can return.
RECURSIVE members(_, _, _)
RECURSIVE membersOf(_, _, _, _)
members(t, b, branchPrefix) ==
    LET own == IF t[b] > 0
               THEN <<MemberInfo(RunesToString(branchPrefix), t[b])>>
               ELSE <<>>
    IN  {own \o rest : rest \in membersOf(t, b, branchPrefix, Children(t, b))}
membersOf(t, b, branchPrefix, kids) ==
    IF kids = {} THEN {<<>>}
    ELSE UNION {
           {first \o rest :
              first \in members(t, c, Append(branchPrefix, c[Len(c)])),
              rest \in membersOf(t, b, branchPrefix, kids \ {c})}
           : c \in kids}

\* Branch.prefixMembers: walk down searchPrefix from b, carrying the path
\* walked; a missing child gives the empty list; at the end of searchPrefix
\* the members of the node reached.
RECURSIVE prefixMembers(_, _, _, _)
prefixMembers(t, b, branchPrefix, searchPrefix) ==
    IF searchPrefix = <<>> THEN members(t, b, branchPrefix)
    ELSE LET c == Append(b, Head(searchPrefix))
         IN  IF c \notin DOMAIN t THEN {<<>>}
             ELSE prefixMembers(t, c, Append(branchPrefix, Head(searchPrefix)),
                                Tail(searchPrefix))

\* ------------------------------------------------------------------- Trie
\* Add that walks the bytes of entry instead of its code points.
AddBytes(t, entry) == add(t, <<>>, entry)

\* Trie.Add: t.Root.add([]rune(entry)) under the root lock.
Add(t, entry) == add(t, <<>>, Runes(entry))

\* Delete that also turns away the entries of one byte.
DeleteShort(t, entry) ==
    IF Len(entry) <= 1
    THEN [tree |-> t, deleted |-> FALSE]
    ELSE delete(t, <<>>, Runes(entry))

\* Delete that walks the bytes of entry instead of its code points.
DeleteBytes(t, entry) ==
    IF Len(entry) = 0
    THEN [tree |-> t, deleted |-> FALSE]
    ELSE delete(t, <<>>, entry)

\* Delete that drops what Branch.delete returned and reports success.
DeleteTrue(t, entry) ==
    IF Len(entry) = 0
    THEN [tree |-> t, deleted |-> FALSE]
    ELSE [tree |-> delete(t, <<>>, Runes(entry)).tree, deleted |-> TRUE]

\* Delete without the check for the empty entry.
DeleteNoGuard(t, entry) == delete(t, <<>>, Runes(entry))

\* Trie.Delete: the empty entry is "not found"; else
\* t.Root.delete([]rune(entry)) under the root lock.
Delete(t, entry) ==
    IF Len(entry) = 0
    THEN [tree |-> t, deleted |-> FALSE]
    ELSE delete(t, <<>>, Runes(entry))

\* Trie.GetBranch
GetBranch(t, entry) == getBranch(t, <<>>, Runes(entry))

\* Has that asks for the node only, as HasPrefix does.
HasNode(t, entry) == hasPrefix(t, <<>>, Runes(entry))

\* Trie.Has
Has(t, entry) == has(t, <<>>, Runes(entry))

\* Trie.HasCount
HasCount(t, entry) == hasCount(t, <<>>, Runes(entry))

\* HasPrefix that asks for a counted node, as Has does.
HasPrefixCounted(t, prefix) == has(t, <<>>, Runes(prefix))

\* Trie.HasPrefix
HasPrefix(t, prefix) == hasPrefix(t, <<>>, Runes(prefix))

\* HasPrefixCount that adds up the counts of the members under the prefix.
RECURSIVE SumCounts(_)
SumCounts(ms) == IF ms = <<>> THEN 0 ELSE Head(ms).Count + SumCounts(Tail(ms))
HasPrefixCountSum(t, prefix) ==
    <<hasPrefix(t, <<>>, Runes(prefix)),
      SumCounts(CHOOSE ms \in prefixMembers(t, <<>>, <<>>, Runes(prefix)) : TRUE)>>

\* Trie.HasPrefixCount
HasPrefixCount(t, prefix) == hasPrefixCount(t, <<>>, Runes(prefix))

\* Members that fills in the Value of each MemberInfo and leaves its Count
\* at the zero value.
MembersNoCount(t) ==
    {[i \in 1..Len(ms) |-> MemberInfo(ms[i].Value, 0)] : ms \in members(t, <<>>, <<>>)}

\* Trie.Members: the lists the call can return.
Members(t) == members(t, <<>>, <<>>)

\* The Value of each MemberInfo of a list, in the list's order.
Values(ms) == [i \in 1..Len(ms) |-> ms[i].Value]

\* MembersList whose loop starts at the second member.
MembersListFromSecond(t) ==
    {IF ms = <<>> THEN <<>> ELSE Tail(Values(ms)) : ms \in members(t, <<>>, <<>>)}

\* Trie.MembersList
MembersList(t) == {Values(ms) : ms \in members(t, <<>>, <<>>)}

\* Trie.PrefixMembers
PrefixMembers(t, prefix) == prefixMembers(t, <<>>, <<>>, Runes(prefix))

\* PrefixMembersList that ranges over the members of the root, as MembersList
\* does.
PrefixMembersListRoot(t, prefix) ==
    {Values(ms) : ms \in members(t, <<>>, <<>>)}

\* Trie.PrefixMembersList
PrefixMembersList(t, prefix) ==
    {Values(ms) : ms \in prefixMembers(t, <<>>, <<>>, Runes(prefix))}

\* The sum of the counts of the tree.
RECURSIVE Sum(_, _)
Sum(t, S) ==
    IF S = {} THEN 0
    ELSE LET p == CHOOSE q \in S : TRUE IN t[p] + Sum(t, S \ {p})
Total(t) == Sum(t, DOMAIN t)

\* ---------------------------------------------------------------- threads
\* The threads that call the Trie at the same time.
Procs == {1, 2}

\* A thread that is in no call.  In a call, pc is the place the thread is at,
\* op and arg are the call, node is the Branch the walk has reached
\* and rest the code points still to walk, reg is the Count the thread has
\* read, stale tells that the Branch it holds has been unlinked since, res is
\* what the last call returned.  before and obs belong to the history:
\* the tree the calls made so far give when taken one at a time, as it was
\* when the thread took the lock, and what a read saw at its last look.
NoObs == [torn |-> FALSE, mid |-> FALSE, writer |-> 0]
Idle ==
    [pc |-> "idle", op |-> "none", arg |-> <<>>, node |-> <<>>, rest |-> <<>>,
     reg |-> 0, stale |-> FALSE, res |-> FALSE, before |-> NewTrie, obs |-> NoObs]

\* ---------------------------------------------------------------- actions
\* Root is the tree; op, arg and ret are the last call, its argument and what
\* it returned; prev is the tree as it was when that call began.
Init ==
    /\ Root = NewTrie
    /\ op = "NewTrie"
    /\ arg = <<>>
    /\ ret = <<>>
    /\ prev = NewTrie
    /\ lock = 0
    /\ thread = [p \in Procs |-> Idle]
    /\ seq = NewTrie
    /\ started = 0

CallAdd ==
    \E entry \in Entries :
        /\ Total(Root) < MaxTotal
        /\ LET r == Add(Root, entry)
           IN  /\ Root' = r.tree
               /\ ret' = r.branch
        /\ op' = "Add"
        /\ arg' = entry
        /\ prev' = Root
        /\ UNCHANGED conc

CallDelete ==
    \E entry \in Entries :
        /\ LET r == Delete(Root, entry)
           IN  /\ Root' = r.tree
               /\ ret' = r.deleted
        /\ op' = "Delete"
        /\ arg' = entry
        /\ prev' = Root
        /\ UNCHANGED conc

\* A read that creates the nodes it does not find on its way.
ReadCreating(name, entry) ==
    /\ op' = name
    /\ arg' = entry
    /\ prev' = Root
    /\ Root' = [add(Root, <<>>, Runes(entry)).tree EXCEPT ![Runes(entry)] = @ - 1]
    /\ UNCHANGED conc

\* What a call that only reads leaves behind: the methods that read assign
\* nothing, so the tree stays as it is.
Read(name, entry) ==
    /\ op' = name
    /\ arg' = entry
    /\ prev' = Root
    /\ Root' = Root
    /\ UNCHANGED conc

CallGetBranch ==
    \E entry \in Entries :
        /\ ret' = GetBranch(Root, entry)
        /\ Read("GetBranch", entry)

CallHas ==
    \E entry \in Entries :
        /\ ret' = Has(Root, entry)
        /\ Read("Has", entry)

CallHasCount ==
    \E entry \in Entries :
        /\ ret' = HasCount(Root, entry)
        /\ Read("HasCount", entry)

CallHasPrefix ==
    \E prefix \in Entries :
        /\ ret' = HasPrefix(Root, prefix)
        /\ Read("HasPrefix", prefix)

CallHasPrefixCount ==
    \E prefix \in Entries :
        /\ ret' = HasPrefixCount(Root, prefix)
        /\ Read("HasPrefixCount", prefix)

CallMembers ==
    \E ms \in Members(Root) :
        /\ ret' = ms
        /\ Read("Members", <<>>)

CallMembersList ==
    \E l \in MembersList(Root) :
        /\ ret' = l
        /\ Read("MembersList", <<>>)

CallPrefixMembers ==
    \E prefix \in Entries :
        \E ms \in PrefixMembers(Root, prefix) :
            /\ ret' = ms
            /\ Read("PrefixMembers", prefix)

CallPrefixMembersList ==
    \E prefix \in Entries :
        \E l \in PrefixMembersList(Root, prefix) :
            /\ ret' = l
            /\ Read("PrefixMembersList", prefix)

Next ==
    \/ CallAdd
    \/ CallDelete
    \/ CallGetBranch
    \/ CallHas
    \/ CallHasCount
    \/ CallHasPrefix
    \/ CallHasPrefixCount
    \/ CallMembers
    \/ CallMembersList
    \/ CallPrefixMembers
    \/ CallPrefixMembersList

Spec == Init /\ [][Next]_vars

\* ---------------------------------------------------------- LoadFromFile
\* A line feed, the delimiter of rd.ReadString('\n').
LineFeed == <<10>>

\* rd.ReadString('\n') on the bytes left to read: the bytes up to and with
\* the first line feed and a nil error, or, when no line feed is left, what
\* is left and io.EOF.
ReadString(data) ==
    LET I == {i \in 1..Len(data) : data[i] = 10}
    IN  IF I = {}
        THEN [line |-> data, rest |-> <<>>, err |-> "EOF"]
        ELSE LET i == CHOOSE j \in I : \A k \in I : j <= k
             IN  [line |-> SubSeq(data, 1, i),
                  rest |-> SubSeq(data, i + 1, Len(data)),
                  err |-> "nil"]

\* The loop of LoadFromFile: read a line, leave the loop on any error, Add the
\* line as it was read, count it.  The read number failAt (from 0) fails with
\* an I/O error.  lineErr is the error the loop ended on; it is declared in
\* the loop and does not reach the caller.
RECURSIVE readLines(_, _, _, _)
readLines(tr, data, count, failAt) ==
    LET r == IF count = failAt
             THEN [line |-> <<>>, rest |-> data, err |-> "read error"]
             ELSE ReadString(data)
    IN  IF r.err # "nil"
        THEN [tr |-> tr, count |-> count, lineErr |-> r.err]
        ELSE readLines(Add(tr, r.line).tree, r.rest, count + 1, failAt)

\* Trie.LoadFromFile: a new Trie; os.Open, and panic(err) when it fails; the
\* loop over the lines; return tr and err, the error of os.Open, which is nil
\* here.  panic is TRUE when the call does not return.
LoadFromFile(file) ==
    IF ~file.opens
    THEN [panic |-> TRUE, tr |-> NewTrie, err |-> "nil", lineErr |-> "nil"]
    ELSE LET r == readLines(NewTrie, file.data, 0, file.failAt)
         IN  [panic |-> FALSE, tr |-> r.tr, err |-> "nil", lineErr |-> r.lineErr]

\* The files LoadFromFile is called with: one that cannot be opened, and the
\* files of at most MaxLines lines (an empty line, 'a', 'a' and U+4E2D), each
\* ended by a line feed, with or without an unended last line, read without
\* error or with an I/O error at one of the reads.
Lines == {RunesToString(w) : w \in {<<>>, <<97>>, <<97, 20013>>}}
RECURSIVE Concat(_)
Concat(ls) == IF ls = <<>> THEN <<>> ELSE Head(ls) \o LineFeed \o Concat(Tail(ls))
FileData ==
    {Concat(ls) \o last :
        ls \in UNION {[1..n -> Lines] : n \in 0..MaxLines},
        last \in {<<>>, <<97>>, <<228, 184, 173>>}}
Files ==
    {[opens |-> FALSE, data |-> <<>>, failAt |-> MaxLines + 1]}
      \cup {[opens |-> TRUE, data |-> d, failAt |-> k] :
              d \in FileData, k \in 0..(MaxLines + 1)}

\* The process has not been ended by a panic.
Running == ~(op = "LoadFromFile" /\ ret.panic)

CallLoadFromFile ==
    \E file \in Files :
        /\ Running
        /\ op' = "LoadFromFile"
        /\ arg' = file
        /\ ret' = LoadFromFile(file)
        /\ prev' = Root
        /\ Root' = Root
        /\ UNCHANGED conc

NextLoad ==
    \/ CallLoadFromFile

SpecLoad == Init /\ [][NextLoad]_vars

\* ------------------------------------------------------- concurrent calls
\* Several threads call the same Trie.  A call is made of the steps its code
\* takes one after the other; the steps of different threads interleave.

\* The calls the threads make between them.
MaxCalls == 3

\* The entries the threads use: "", "a" and 'a' followed by U+4E2D.
ConcEntries == {RunesToString(w) : w \in {<<>>, <<97>>, <<97, 20013>>}}

\* The node above n.
ParentOf(n) == SubSeq(n, 1, Len(n) - 1)

\* The Count of the Branch a thread holds, and the tree after the thread has
\* set it.  A Branch that has been unlinked is no longer part of the tree.
CountAt(t, n) == IF n \in DOMAIN t THEN t[n] ELSE 0
SetCount(t, n, v) == IF n \in DOMAIN t THEN [t EXCEPT ![n] = v] ELSE t

\* The child n can be unlinked: Count 0 and no children.
Prunable(t, n) ==
    n # <<>> /\ n \in DOMAIN t /\ t[n] = 0 /\ Children(t, n) = {}

\* No entry of t with a Count above 0 starts with the code points b.
NoLiveEntry(t, b) ==
    \A n \in DOMAIN t :
        t[n] > 0 => ~(Len(b) <= Len(n) /\ SubSeq(n, 1, Len(b)) = b)

\* The process runs until the runtime ends it (HasPrefixFatal).
Alive == \A p \in Procs : thread[p].pc # "fatal"

\* A lock that is taken without waiting for it to be free.
LockNoWait(p) == lock' = p

\* t.Root.Lock(): wait until the lock is free, then hold it.
Lock(p) == lock = 0 /\ lock' = p

\* An unlock that leaves the lock held.
UnlockForgotten(p) == lock' = lock

\* t.Root.Unlock().
Unlock(p) == lock' = 0

\* The thread p goes on to the record r.
Goes(p, r) == thread' = [thread EXCEPT ![p] = r]

\* The thread p starts a call, if the process runs and calls are left.
Begin(p, name, entry, pc) ==
    /\ Alive
    /\ thread[p].pc = "idle"
    /\ started < MaxCalls
    /\ started' = started + 1
    /\ Goes(p, [Idle EXCEPT !.pc = pc, !.op = name, !.arg = entry,
                            !.rest = Runes(entry)])

\* The thread p is at the place pc of a call of name.
At(p, name, pc) == Alive /\ thread[p].op = name /\ thread[p].pc = pc

\* The thread p returns res from its call.
Returns(p, res, obs) ==
    Goes(p, [Idle EXCEPT !.op = thread[p].op, !.arg = thread[p].arg,
                         !.res = res, !.obs = obs])

\* ---- Add
StartAdd(p) ==
    \E entry \in ConcEntries :
        /\ Begin(p, "Add", entry, "lock")
        /\ UNCHANGED <<Root, lock, seq, lastCall>>

\* t.Root.Lock() of Add.  seq is the tree the calls give when each is made
\* whole, in the order in which they take the lock.
AddLock(p) ==
    /\ At(p, "Add", "lock")
    /\ Lock(p)
    /\ seq' = Add(seq, thread[p].arg).tree
    /\ Goes(p, [thread[p] EXCEPT !.pc = "walk", !.before = seq])
    /\ UNCHANGED <<Root, started, lastCall>>

\* One step of Branch.add: at the end of the entry read the Count of the node
\* reached, else go to the child of the next code point, linking it first if
\* it is missing.
AddWalk(p) ==
    /\ At(p, "Add", "walk")
    /\ LET me == thread[p]
           c == Append(me.node, Head(me.rest))
       IN  IF me.rest = <<>>
           THEN /\ Goes(p, [me EXCEPT !.pc = "store",
                                      !.reg = CountAt(Root, me.node)])
                /\ Root' = Root
           ELSE /\ Goes(p, [me EXCEPT !.node = c, !.rest = Tail(me.rest)])
                /\ Root' = IF c \in DOMAIN Root THEN Root ELSE Link(Root, c)
    /\ UNCHANGED <<lock, seq, started, lastCall>>

\* Count++ of Branch.add: store the Count read, plus one.
AddStore(p) ==
    /\ At(p, "Add", "store")
    /\ Root' = SetCount(Root, thread[p].node, thread[p].reg + 1)
    /\ Goes(p, [thread[p] EXCEPT !.pc = "unlock"])
    /\ UNCHANGED <<lock, seq, started, lastCall>>

\* t.Root.Unlock() of Add, and its return of the node reached.
AddUnlock(p) ==
    /\ At(p, "Add", "unlock")
    /\ Unlock(p)
    /\ Returns(p, thread[p].node, NoObs)
    /\ UNCHANGED <<Root, seq, started, lastCall>>

\* ---- Delete
\* Delete of the empty entry returns false before it takes the lock.
StartDelete(p) ==
    \E entry \in ConcEntries :
        /\ Begin(p, "Delete", entry, IF Len(entry) = 0 THEN "idle" ELSE "lock")
        /\ UNCHANGED <<Root, lock, seq, lastCall>>

DeleteLock(p) ==
    /\ At(p, "Delete", "lock")
    /\ Lock(p)
    /\ seq' = Delete(seq, thread[p].arg).tree
    /\ Goes(p, [thread[p] EXCEPT !.pc = "walk", !.before = seq])
    /\ UNCHANGED <<Root, started, lastCall>>

\* One step of Branch.delete on the way down: at the end of the entry read
\* the Count of the node reached, and give up if it is 0; else go to the
\* child of the next code point, and give up if it is missing.
DeleteWalk(p) ==
    /\ At(p, "Delete", "walk")
    /\ LET me == thread[p]
           c == Append(me.node, Head(me.rest))
       IN  IF me.rest = <<>>
           THEN IF CountAt(Root, me.node) > 0
                THEN Goes(p, [me EXCEPT !.pc = "store",
                                        !.reg = CountAt(Root, me.node)])
                ELSE Goes(p, [me EXCEPT !.pc = "unlock", !.res = FALSE])
           ELSE IF c \in DOMAIN Root
                THEN Goes(p, [me EXCEPT !.node = c, !.rest = Tail(me.rest)])
                ELSE Goes(p, [me EXCEPT !.pc = "unlock", !.res = FALSE])
    /\ UNCHANGED <<Root, lock, seq, started, lastCall>>

\* Count-- of Branch.delete: store the Count read, minus one.
DeleteStore(p) ==
    /\ At(p, "Delete", "store")
    /\ Root' = SetCount(Root, thread[p].node, thread[p].reg - 1)
    /\ Goes(p, [thread[p] EXCEPT !.pc = "prune", !.res = TRUE])
    /\ UNCHANGED <<lock, seq, started, lastCall>>

\* One step of Branch.delete on the way back: the parent unlinks the child
\* the walk came from if it is left with Count 0 and no children, and the walk
\* goes on from the parent; else nothing above can be unlinked either.  A
\* thread that holds the unlinked Branch holds it still, out of the tree.
DeletePrune(p) ==
    /\ At(p, "Delete", "prune")
    /\ LET n == thread[p].node
       IN  IF Prunable(Root, n)
           THEN /\ Root' = Unlink(Root, n)
                /\ thread' =
                     [q \in Procs |->
                        IF q = p THEN [thread[p] EXCEPT !.node = ParentOf(n)]
                        ELSE IF thread[q].pc = "read" /\ thread[q].node = n
                        THEN [thread[q] EXCEPT !.stale = TRUE]
                        ELSE thread[q]]
           ELSE /\ Root' = Root
                /\ Goes(p, [thread[p] EXCEPT !.pc = "unlock"])
    /\ UNCHANGED <<lock, seq, started, lastCall>>

\* t.Root.Unlock() of Delete, and its return.
DeleteUnlock(p) ==
    /\ At(p, "Delete", "unlock")
    /\ Unlock(p)
    /\ Returns(p, thread[p].res, NoObs)
    /\ UNCHANGED <<Root, seq, started, lastCall>>

\* ---- HasPrefix
\* A read that goes on only while the lock is free.
LockedRead(p) == lock = 0 /\ lock' = lock

\* A read takes no lock: it goes on whoever holds it.
NoLock(p) == lock' = lock

StartHasPrefix(p) ==
    \E entry \in ConcEntries :
        /\ Begin(p, "HasPrefix", entry, "read")
        /\ UNCHANGED <<Root, lock, seq, lastCall>>

\* What a read that returns in this state has seen: torn tells that it found
\* the node of a prefix that no entry with a Count above 0 starts with, mid
\* that the tree is neither the one before nor the one after the write of
\* the thread that holds the lock, writer who holds the lock.
Seen(p, found) ==
    [torn   |-> found /\ thread[p].arg # <<>>
                      /\ NoLiveEntry(Root, Runes(thread[p].arg)),
     mid    |-> lock # 0 /\ Root # seq /\ Root # thread[lock].before,
     writer |-> lock]

\* One step of Branch.getBranch for HasPrefix: the node itself for the empty
\* entry, else a look in the children of the node held for the next code
\* point; the look at the last code point is the answer.  A Branch that was
\* unlinked had no children.
HasPrefixWalk(p) ==
    /\ At(p, "HasPrefix", "read")
    /\ LET me == thread[p]
           c == Append(me.node, Head(me.rest))
       IN  IF me.rest = <<>>
           THEN Returns(p, TRUE, Seen(p, TRUE))
           ELSE IF me.stale \/ c \notin DOMAIN Root
           THEN Returns(p, FALSE, Seen(p, FALSE))
           ELSE IF Tail(me.rest) = <<>>
           THEN Returns(p, TRUE, Seen(p, TRUE))
           ELSE Goes(p, [me EXCEPT !.node = c, !.rest = Tail(me.rest)])
    /\ NoLock(p)
    /\ UNCHANGED <<Root, seq, started, lastCall>>

\* The thread w is about to write the children of the node n: Add links a
\* missing child, Delete unlinks one.
WritesChildren(w, n) ==
    LET t == thread[w]
    IN  \/ /\ t.op = "Add" /\ t.pc = "walk" /\ t.rest # <<>> /\ t.node = n
           /\ Append(n, Head(t.rest)) \notin DOMAIN Root
        \/ /\ t.op = "Delete" /\ t.pc = "prune"
           /\ Prunable(Root, t.node) /\ ParentOf(t.node) = n

\* The look of a read in the children of a node falls together with a write
\* of the same children: besides the value before and the value after, the
\* runtime may end the process (concurrent map read and map write).
HasPrefixFatal(p) ==
    /\ At(p, "HasPrefix", "read")
    /\ thread[p].rest # <<>>
    /\ ~thread[p].stale
    /\ \E w \in Procs \ {p} : WritesChildren(w, thread[p].node)
    /\ Goes(p, [thread[p] EXCEPT !.pc = "fatal"])
    /\ UNCHANGED <<Root, lock, seq, started, lastCall>>

\* ---- DumpToFile
StartDumpToFile(p) ==
    /\ Begin(p, "DumpToFile", <<>>, "lock")
    /\ UNCHANGED <<Root, lock, seq, lastCall>>

\* t.Root.Lock() of DumpToFile.
DumpLock(p) ==
    /\ At(p, "DumpToFile", "lock")
    /\ Lock(p)
    /\ Goes(p, [thread[p] EXCEPT !.pc = "members"])
    /\ UNCHANGED <<Root, seq, started, lastCall>>

\* entries := t.Members(), under the lock: Members takes no lock.  The
\* entries are kept without their order.
DumpMembers(p) ==
    /\ At(p, "DumpToFile", "members")
    /\ Goes(p, [thread[p] EXCEPT
                  !.pc = "unlock",
                  !.res = UNION {{ms[i] : i \in 1..Len(ms)} : ms \in Members(Root)}])
    /\ UNCHANGED <<Root, lock, seq, started, lastCall>>

\* t.Root.Unlock() of DumpToFile, before anything is encoded or written.
DumpUnlock(p) ==
    /\ At(p, "DumpToFile", "unlock")
    /\ Unlock(p)
    /\ Goes(p, [thread[p] EXCEPT !.pc = "write"])
    /\ UNCHANGED <<Root, seq, started, lastCall>>

\* The rest of DumpToFile: encode, create the file, write, flush; each may
\* fail, and the call returns the error or nil.
DumpWrite(p) ==
    /\ At(p, "DumpToFile", "write")
    /\ \E err \in {"nil", "encode error", "create error", "write error"} :
           Returns(p, err, NoObs)
    /\ UNCHANGED <<Root, lock, seq, started, lastCall>>

\* ---- the specifications
\* The steps of the calls that take the lock.
StepLock(p) ==
    \/ AddLock(p) \/ AddWalk(p) \/ AddStore(p) \/ AddUnlock(p)
    \/ DeleteLock(p) \/ DeleteWalk(p) \/ DeleteStore(p) \/ DeletePrune(p)
    \/ DeleteUnlock(p)
    \/ DumpLock(p) \/ DumpMembers(p) \/ DumpUnlock(p) \/ DumpWrite(p)

\* The calls that take the lock.
StartLock(p) == StartAdd(p) \/ StartDelete(p) \/ StartDumpToFile(p)

\* Threads that call Add, Delete, DumpToFile and HasPrefix.
NextConc ==
    \E p \in Procs :
        \/ StartLock(p) \/ StepLock(p)
        \/ StartHasPrefix(p) \/ HasPrefixWalk(p) \/ HasPrefixFatal(p)

SpecConc == Init /\ [][NextConc]_vars

\* Threads that call Add, Delete and DumpToFile only.  The scheduler lets
\* every thread that can take a step take one in the end; the calls being
\* finitely many, a thread that waits for the lock finds it free in the end.
NextLock == \E p \in Procs : StartLock(p) \/ StepLock(p)

SpecLockFair ==
    /\ Init
    /\ [][NextLock]_vars
    /\ \A p \in Procs : WF_vars(StepLock(p))

\* ------------------------------------------------------------- properties
\* The own count of the string s in the tree t, read off the arena: the Count
\* of the node whose path spells s, 0 when there is no such node.
CountOf(t, s) ==
    LET N == {n \in DOMAIN t : RunesToString(n) = s}
    IN  IF N = {} THEN 0 ELSE t[CHOOSE n \in N : TRUE]

\* s is a stored entry of t.
Stored(t, s) == CountOf(t, s) > 0

\* strings.HasPrefix(s, p), on bytes.
StartsWith(s, p) == Len(p) <= Len(s) /\ SubSeq(s, 1, Len(p)) = p

\* The elements of a list, and the list as a multiset.
Range(l) == {l[i] : i \in 1..Len(l)}
Multiset(l) == [x \in Range(l) |-> Cardinality({i \in 1..Len(l) : l[i] = x})]

\* The calls that only read.
Queries ==
    {"GetBranch", "Has", "HasCount", "HasPrefix", "HasPrefixCount",
     "Members", "MembersList", "PrefixMembers", "PrefixMembersList"}

\* C1: after Add(s) of a non-empty s, Has(s) is true and HasCount(s) is
\* (true, c + 1), where c is the count HasCount(s) gave before the call.
C1_AddRaisesCount ==
    (op = "Add" /\ arg # <<>>) =>
        /\ Has(Root, arg)
        /\ HasCount(Root, arg) = <<TRUE, HasCount(prev, arg)[2] + 1>>

\* C1 witness: a second Add of an entry written with a multi-byte character.
C1_Witness ==
    /\ op = "Add"
    /\ Len(arg) > Len(Runes(arg))
    /\ HasCount(prev, arg) = <<TRUE, 1>>
    /\ HasCount(Root, arg) = <<TRUE, 2>>

\* C2 as stated: Delete(s) of any s that is present (Has(s) true before the
\* call) returns true and lowers the count of s by exactly one.
C2_Original ==
    (op = "Delete" /\ Has(prev, arg)) =>
        /\ ret = TRUE
        /\ CountOf(Root, arg) = CountOf(prev, arg) - 1

\* C2 as amended: Delete(s) of a non-empty s that is present returns true and
\* lowers the count of s by exactly one: from 1, Has(s) is false afterwards;
\* from 2, HasCount(s) is (true, 1) afterwards.
C2_DeleteLowersCount ==
    (op = "Delete" /\ arg # <<>> /\ Has(prev, arg)) =>
        /\ ret = TRUE
        /\ CountOf(Root, arg) = CountOf(prev, arg) - 1
        /\ (HasCount(prev, arg)[2] = 1 => ~Has(Root, arg))
        /\ (HasCount(prev, arg)[2] = 2 => HasCount(Root, arg) = <<TRUE, 1>>)

\* C2 witness: a Delete that takes an entry from count 2 to count 1.
C2_Witness ==
    /\ op = "Delete"
    /\ arg # <<>>
    /\ HasCount(prev, arg) = <<TRUE, 2>>
    /\ HasCount(Root, arg) = <<TRUE, 1>>
    /\ ret = TRUE

\* C3 as stated: for every string s, Delete(s) returns true exactly when s had
\* count > 0 immediately before the call.
C3_Original ==
    (op = "Delete") => (ret = Stored(prev, arg))

\* C3 as amended: for every non-empty s, Delete(s) returns true exactly when s
\* had count > 0 immediately before the call (false for a prefix-only node);
\* Delete("") returns false whatever the root's count.
C3_DeleteReportsPresence ==
    (op = "Delete") =>
        IF arg = <<>> THEN ret = FALSE ELSE ret = Stored(prev, arg)

\* C3 witness: a Delete of a string that is only a prefix of a stored entry.
C3_Witness ==
    /\ op = "Delete"
    /\ arg # <<>>
    /\ HasPrefix(prev, arg)
    /\ ~Stored(prev, arg)
    /\ ret = FALSE

\* C4: Delete(s) of an s that is absent (no path, or a node of count 0)
\* returns false and leaves the tree as it was: same nodes, same counts.
C4_DeleteAbsentNoChange ==
    (op = "Delete" /\ ~Stored(prev, arg)) =>
        /\ ret = FALSE
        /\ Root = prev

\* C4 witness: a Delete of a string with no path in a tree that is not empty.
C4_Witness ==
    /\ op = "Delete"
    /\ ~HasPrefix(prev, arg)
    /\ DOMAIN prev # {<<>>}
    /\ ret = FALSE

\* C5: PrefixMembersList(p) lists exactly the stored entries that start with
\* p, each once: nothing for a prefix that is not in the trie.
C5_PrefixMembersListExact ==
    (op = "PrefixMembersList") =>
        /\ Range(ret) = {s \in Entries : Stored(Root, s) /\ StartsWith(s, arg)}
        /\ Len(ret) = Cardinality(Range(ret))
        /\ (~HasPrefix(Root, arg) => ret = <<>>)

\* C5 witness: a list for a non-empty prefix that takes one stored entry and
\* leaves another out.
C5_Witness ==
    /\ op = "PrefixMembersList"
    /\ arg # <<>>
    /\ ret # <<>>
    /\ \E s \in Entries : Stored(Root, s) /\ ~StartsWith(s, arg)

\* C6 as stated: HasPrefix(p) is true if and only if some stored entry starts
\* with p, the empty prefix included.
C6_Original ==
    (op = "HasPrefix") =>
        (ret = (\E s \in Entries : Stored(Root, s) /\ StartsWith(s, arg)))

\* C6 as amended: for a non-empty p, HasPrefix(p) is true if and only if some
\* stored entry starts with p; HasPrefix("") is true in every state, also on
\* an empty trie.
C6_HasPrefixIffLiveEntry ==
    (op = "HasPrefix") =>
        IF arg = <<>> THEN ret = TRUE
        ELSE ret = (\E s \in Entries : Stored(Root, s) /\ StartsWith(s, arg))

\* C6 witness: HasPrefix is true of a non-empty prefix that is not itself
\* stored.
C6_Witness ==
    /\ op = "HasPrefix"
    /\ arg # <<>>
    /\ ~Stored(Root, arg)
    /\ ret = TRUE

\* C7: Has(s) is true exactly when the own count of s is > 0; HasCount(s) is
\* (true, count) then and (false, 0) otherwise, so also for a prefix-only s.
C7_HasIffCounted ==
    /\ (op = "Has") => (ret = (CountOf(Root, arg) > 0))
    /\ (op = "HasCount") =>
          ret = IF CountOf(Root, arg) > 0
                THEN <<TRUE, CountOf(Root, arg)>>
                ELSE <<FALSE, 0>>

\* C7 witness: Has of a string that is only a prefix of a stored entry.
C7_Witness ==
    /\ op = "Has"
    /\ arg # <<>>
    /\ HasPrefix(Root, arg)
    /\ ret = FALSE

\* C8: the count HasPrefixCount(p) returns is the own count of the node at p,
\* 0 for a prefix-only node or a missing one.
C8_HasPrefixCountOwn ==
    (op = "HasPrefixCount") => (ret[2] = CountOf(Root, arg))

\* C8 witness: a prefix that is stored and has a stored entry below it, so
\* that its own count is less than the sum of the counts under it.
C8_Witness ==
    /\ op = "HasPrefixCount"
    /\ ret[1] = TRUE
    /\ ret[2] > 0
    /\ \E s \in Entries : s # arg /\ StartsWith(s, arg) /\ Stored(Root, s)

\* C9: Members() holds one MemberInfo for each string of count > 0, with that
\* string and the count HasCount gives for it, and nothing else.
C9_MembersExact ==
    (op = "Members") =>
        /\ Range(ret) =
             {MemberInfo(s, HasCount(Root, s)[2]) : s \in {e \in Entries : Stored(Root, e)}}
        /\ Len(ret) = Cardinality({e \in Entries : Stored(Root, e)})

\* C9 witness: Members of a tree that stores two entries.
C9_Witness ==
    /\ op = "Members"
    /\ Len(ret) = 2

\* C10: a call that only reads leaves the tree as it was, and two Members
\* calls with only reads in between return the same multiset.
C10_QueriesLeaveTree ==
    [][ /\ (op' \in Queries => Root' = Root)
        /\ (op = "Members" /\ op' = "Members" => Multiset(ret') = Multiset(ret))
      ]_vars

\* C10 witness: a Members call on a tree that stores something.
C10_Witness ==
    /\ op = "Members"
    /\ ret # <<>>
    /\ prev = Root

\* C13: LoadFromFile of a file that cannot be opened, or whose read fails,
\* returns with an error that is not nil, and the process goes on.
C13_LoadReportsFailure ==
    (op = "LoadFromFile" /\ (~arg.opens \/ ret.lineErr = "read error")) =>
        (~ret.panic /\ ret.err # "nil")

\* C14 as stated: a MembersList call made right after a Members call returns
\* the values in the order Members returned them.
C14_Original ==
    [][(op = "Members" /\ op' = "MembersList") => ret' = Values(ret)]_vars

\* C14 as amended: a MembersList call made right after a Members call returns
\* the same values as Members, each as often, in an order of its own.
C14_MembersListSameValues ==
    [][(op = "Members" /\ op' = "MembersList")
         => Multiset(ret') = Multiset(Values(ret))]_vars

\* C14 witness: a MembersList of two values or more.
C14_Witness ==
    /\ op = "MembersList"
    /\ Len(ret) >= 2

\* C15: after every completed call, no node but the root has Count 0 and no
\* children.
C15_NoDeadNodes ==
    \A n \in DOMAIN Root :
        n # <<>> => (Root[n] > 0 \/ Children(Root, n) # {})

\* C15 witness: a Delete that took the last entry of a chain and unlinked the
\* terminal node and an ancestor of it.
C15_Witness ==
    /\ op = "Delete"
    /\ ret = TRUE
    /\ Cardinality(DOMAIN prev) >= Cardinality(DOMAIN Root) + 2

\* C16: Add(s) and Delete(s) leave HasCount(t) as it was for every t other
\* than s.
C16_OnlyOwnCount ==
    (op \in {"Add", "Delete"}) =>
        \A t \in Entries \ {arg} : HasCount(Root, t) = HasCount(prev, t)

\* C16 witness: a Delete that took the last occurrence of an entry that has a
\* stored entry above it and a stored entry below it.
C16_Witness ==
    /\ op = "Delete"
    /\ ret = TRUE
    /\ ~Stored(Root, arg)
    /\ \E s \in Entries \ {arg, <<>>} : StartsWith(arg, s) /\ Stored(Root, s)
    /\ \E u \in Entries \ {arg} : StartsWith(u, arg) /\ Stored(Root, u)

\* C17: Delete(s) right after Add(s), s not empty, gives back the tree as it
\* was before the Add: same nodes, same counts.
C17_AddDeleteRestores ==
    [][(op = "Add" /\ arg # <<>> /\ op' = "Delete" /\ arg' = arg)
         => Root' = prev]_vars

\* C17 witness: a Delete that undid an Add which had created two nodes or
\* more: the tree before the Delete is what Add makes of the tree after it.
C17_Witness ==
    /\ op = "Delete"
    /\ ret = TRUE
    /\ prev = Add(Root, arg).tree
    /\ Cardinality(DOMAIN prev) >= Cardinality(DOMAIN Root) + 2

\* C18: no Count is negative.
C18_CountsNonNegative ==
    \A n \in DOMAIN Root : Root[n] >= 0

\* C18 witness: a Delete of a prefix-only node, which has Count 0.
C18_Witness ==
    /\ op = "Delete"
    /\ arg # <<>>
    /\ HasPrefix(Root, arg)
    /\ CountOf(Root, arg) = 0
    /\ ret = FALSE

\* C19: Delete("") returns false and leaves the tree as it is, and once
\* Has("") is true it stays true.
C19_EmptyEntryStays ==
    [][ /\ (op' = "Delete" /\ arg' = <<>>) => (ret' = FALSE /\ Root' = Root)
        /\ Has(Root, <<>>) => Has(Root', <<>>)
      ]_vars

\* C19 witness: a Delete("") on a tree whose root has Count > 0.
C19_Witness ==
    /\ op = "Delete"
    /\ arg = <<>>
    /\ Has(Root, <<>>)
    /\ ret = FALSE


\* The thread p is inside the tree walk of an Add or a Delete.
InWalk(p) ==
    /\ thread[p].op \in {"Add", "Delete"}
    /\ thread[p].pc \in {"walk", "store", "prune", "unlock"}

\* C11: Add and Delete are atomic with respect to each other: at most one
\* thread is inside the tree walk of an Add or a Delete at any time, and
\* whenever no thread holds the lock the tree is the one that the calls give
\* when they are made one after the other in the order in which they took
\* the lock, so that no update is lost.
C11_WritesAtomic ==
    /\ Cardinality({p \in Procs : InWalk(p)}) <= 1
    /\ lock = 0 => Root = seq

\* C11 happens: a thread has read the Count of s in its Add(s) and has not yet
\* stored it, while the other thread has called Add(s) too and waits.
C11_Witness ==
    \E p, q \in Procs :
        /\ thread[p].op = "Add" /\ thread[p].pc = "store"
        /\ thread[q].op = "Add" /\ thread[q].pc = "lock"
        /\ thread[q].arg = thread[p].arg

\* C12: a read takes no lock: a HasPrefix that has a step to take can take it
\* whoever holds the lock, and never holds the lock itself; what it sees
\* with the lock held can be the tree in the middle of a write, and a prefix
\* it finds that no entry with a Count above 0 starts with was seen while
\* another thread held the lock.
C12_ReadsTakeNoLock ==
    \A p \in Procs :
        /\ At(p, "HasPrefix", "read") => (lock # p /\ ENABLED HasPrefixWalk(p))
        /\ (thread[p].op = "HasPrefix" /\ thread[p].obs.torn) =>
               thread[p].obs.writer \in Procs \ {p}

\* C12 happens: HasPrefix(p) has returned true while no entry with a Count
\* above 0 started with p, in a tree that was neither the one before nor the
\* one after the write of the thread that held the lock.
C12_Witness ==
    \E p \in Procs :
        /\ thread[p].op = "HasPrefix" /\ thread[p].pc = "idle"
        /\ thread[p].res = TRUE
        /\ thread[p].obs.torn /\ thread[p].obs.mid

\* The thread p is in a call; it is between the Lock and the Unlock of it.
Pending(p) == thread[p].pc # "idle"
Holds(p) == thread[p].pc \in {"walk", "store", "prune", "members", "unlock"}

\* C20: a thread holds the lock exactly between the Lock and the Unlock of its
\* Add, Delete or DumpToFile, so it has released it when it returns and the
\* lock is free when no thread is in such a call; DumpToFile gets its Members
\* while it holds the lock; as long as a call is pending some thread has a
\* step to take; and every pending call returns in the end.
C20_LockReleased ==
    /\ [](\A p \in Procs : (lock = p) <=> Holds(p))
    /\ []((\A p \in Procs : ~Pending(p)) => lock = 0)
    /\ []((\E p \in Procs : Pending(p)) => \E p \in Procs : ENABLED StepLock(p))
    /\ \A p \in Procs : Pending(p) ~> ~Pending(p)

\* C20 happens: a DumpToFile has released the lock and has its file still to
\* write, and the other thread has taken the lock for its Add or Delete.
C20_Witness ==
    \E p, q \in Procs :
        /\ thread[p].op = "DumpToFile" /\ thread[p].pc = "write"
        /\ lock = q /\ InWalk(q)

====
